---- MODULE Spec2Model ----
(***************************************************************************)
(* ShoreSquad: a browser front-end that keeps a crew roster and cleanup    *)
(* statistics in AppState, persists them in two localStorage slots and     *)
(* shows a weather panel fetched from a public endpoint with a mock        *)
(* fallback.  The repository holds three variants of the same script:      *)
(*   "openmeteo" : src/js/app.js          (Open-Meteo, needs a location)   *)
(*   "nea24"     : src/unnamed/part_000   (NEA 24-hour forecast, seeded    *)
(*                                         stats, animated counters)       *)
(*   "nea4day"   : src/unnamed/part_001   (NEA 4-day forecast + readings)  *)
(* The variant is fixed at Init; every action is the whole handler of the  *)
(* variant in force.  The page markup is not part of the repository: every *)
(* element the script looks up by id is taken to exist.                    *)
(***************************************************************************)
EXTENDS Integers, Sequences, FiniteSets, TLC

VARIABLES
    variant,      \* which of the three scripts is loaded
    phase,        \* "constructed" (script evaluated) | "ready" (initializeApp ran)
    crew,         \* AppState.crew
    stats,        \* AppState.stats
    crewSlot,     \* localStorage['shoresquad_crew']
    statsSlot,    \* localStorage['shoresquad_stats']
    now,          \* the value Date.now() returns
    crewGrid,     \* #crew-grid: the rendered crew cards
    counters,     \* textContent of the four stat counters
    anims,        \* nea24: animateCounter closures still scheduled on requestAnimationFrame
    notice,       \* the notification shown by the last handler
    geoSupported, \* whether navigator.geolocation exists
    userLocation, \* AppState.userLocation
    weather,      \* AppState.weather (nea24)
    locationBtn,  \* #location-btn: its label and whether it is disabled
    geoQueries,   \* getCurrentPosition calls not answered yet, each with its closure
    fetches,      \* fetchWeatherData invocations suspended at an await
    weatherDom,   \* the weather elements
    lastSettle,   \* how the last fetchWeatherData invocation ended
    events,       \* the join buttons of the event cards, and the click listeners on them
    classified,   \* the last getForecastEmoji call made on its own: its argument and result
    used,         \* how much of each bounded resource the run has used
    lastOp        \* the last handler that ran, with its inputs and how it ended

\* ------------------------------------------------------------------ bounds

MaxCrew == 2
MaxOps == 3
MaxWriteFailures == 1
MaxFetches == 2
MaxFrames == 2

\* ------------------------------------------------------ program constants

BeachCap == 5
RandRange == 50
RandBase == 20
MockCleanups == 12
MockTrash == 847
MockBeaches == 5
MockCrewMembers == 28
AnimDuration == 1000
AnimFrameMs == 16

Variants == {"openmeteo", "nea24", "nea4day"}
Names == {"Ann", "Bob"}
Roles == {"Lead"}
Dates == {"1/11/2026"}

\* --------------------------------------------------------------- JS values
\* Every JS value is a record tagged by t, so that values of different JS
\* types can be compared.

Undef == [t |-> "undefined"]
Null == [t |-> "null"]
Num(n) == [t |-> "num", n |-> n]
Arr(s) == [t |-> "arr", a |-> s]

\* AppState.stats, src/js/app.js:27-32
ZeroStats == [t |-> "obj", cleanups |-> 0, trash |-> 0, beaches |-> 0, crewMembers |-> 0]

\* AppConfig.mockStats, src/unnamed/part_000:27-32
mockStats ==
    [t |-> "obj", cleanups |-> MockCleanups, trash |-> MockTrash,
     beaches |-> MockBeaches, crewMembers |-> MockCrewMembers]

Min(a, b) == IF a <= b THEN a ELSE b

\* -------------------------------------------------------------------- JSON
\* A JSON text is a sequence of tokens.  P: punctuation, N: number literal,
\* S: string literal, W: bare word.

P(c) == [k |-> "p", s |-> c, n |-> 0]
N(n) == [k |-> "n", s |-> "", n |-> n]
S(s) == [k |-> "s", s |-> s, n |-> 0]
W(s) == [k |-> "w", s |-> s, n |-> 0]

RECURSIVE JoinComma(_)
JoinComma(parts) ==
    IF parts = <<>> THEN <<>>
    ELSE IF Len(parts) = 1 THEN parts[1]
    ELSE parts[1] \o <<P(",")>> \o JoinComma(Tail(parts))

\* a crew member as handleCrewSubmit builds it
Member(id, name, role, joinedDate) ==
    [t |-> "obj", id |-> id, name |-> name, role |-> role, joinedDate |-> joinedDate]

\* StringifyMember with the name written under the role key as well
StringifyMemberNameAsRole(m) ==
    <<P("{"), S("id"), P(":"), N(m.id), P(","),
      S("name"), P(":"), S(m.name), P(","),
      S("role"), P(":"), S(m.name), P(","),
      S("joinedDate"), P(":"), S(m.joinedDate), P("}")>>

StringifyMember(m) ==
    <<P("{"), S("id"), P(":"), N(m.id), P(","),
      S("name"), P(":"), S(m.name), P(","),
      S("role"), P(":"), S(m.role), P(","),
      S("joinedDate"), P(":"), S(m.joinedDate), P("}")>>

\* the stats written with the beaches count under the trash key
StringifyStatsBeachesAsTrash(s) ==
    <<P("{"), S("cleanups"), P(":"), N(s.cleanups), P(","),
      S("trash"), P(":"), N(s.beaches), P(","),
      S("beaches"), P(":"), N(s.beaches), P(","),
      S("crewMembers"), P(":"), N(s.crewMembers), P("}")>>

StringifyStats(s) ==
    <<P("{"), S("cleanups"), P(":"), N(s.cleanups), P(","),
      S("trash"), P(":"), N(s.trash), P(","),
      S("beaches"), P(":"), N(s.beaches), P(","),
      S("crewMembers"), P(":"), N(s.crewMembers), P("}")>>

\* JSON.stringify of the values AppState.crew and AppState.stats can hold
JSONStringify(v) ==
    CASE v.t = "arr" -> <<P("[")>> \o JoinComma([i \in 1..Len(v.a) |-> StringifyMember(v.a[i])]) \o <<P("]")>>
      [] v.t = "obj" -> StringifyStats(v)
      [] v.t = "num" -> <<N(v.n)>>
      [] OTHER -> <<W("null")>>

\* Parsing.  A parse result is [ok, v, i]: whether a value was read, the
\* value, and the index of the first token after it.
Fail == [ok |-> FALSE, v |-> Undef, i |-> 0]

Tok(toks, i) == IF i >= 1 /\ i <= Len(toks) THEN toks[i] ELSE W("<eof>")

\* the members "key": literal, ... of an object, from token i, added to acc
RECURSIVE ParseFields(_, _, _)
ParseFields(toks, i, acc) ==
    LET key == Tok(toks, i)
        val == Tok(toks, i + 2)
        lit == IF val.k = "n" THEN val.n ELSE val.s
        sep == Tok(toks, i + 3)
    IN  IF key.k # "s" \/ Tok(toks, i + 1) # P(":") \/ val.k \notin {"n", "s"}
        THEN Fail
        ELSE IF sep = P("}") THEN [ok |-> TRUE, v |-> acc @@ (key.s :> lit), i |-> i + 4]
        ELSE IF sep = P(",") THEN ParseFields(toks, i + 4, acc @@ (key.s :> lit))
        ELSE Fail

ParseObject(toks, i) ==
    IF Tok(toks, i) # P("{") THEN Fail
    ELSE IF Tok(toks, i + 1) = P("}") THEN [ok |-> TRUE, v |-> [t |-> "obj"], i |-> i + 2]
    ELSE ParseFields(toks, i + 1, [t |-> "obj"])

\* the elements of an array of objects, from token i, appended to acc
RECURSIVE ParseElements(_, _, _)
ParseElements(toks, i, acc) ==
    LET el == ParseObject(toks, i)
        sep == Tok(toks, el.i)
    IN  IF ~el.ok THEN Fail
        ELSE IF sep = P("]") THEN [ok |-> TRUE, v |-> Arr(Append(acc, el.v)), i |-> el.i + 1]
        ELSE IF sep = P(",") THEN ParseElements(toks, el.i + 1, Append(acc, el.v))
        ELSE Fail

ParseValue(toks, i) ==
    LET tk == Tok(toks, i)
    IN  CASE tk = P("[") ->
                IF Tok(toks, i + 1) = P("]") THEN [ok |-> TRUE, v |-> Arr(<<>>), i |-> i + 2]
                ELSE ParseElements(toks, i + 1, <<>>)
          [] tk = P("{") -> ParseObject(toks, i)
          [] tk.k = "n" -> [ok |-> TRUE, v |-> Num(tk.n), i |-> i + 1]
          [] tk = W("null") -> [ok |-> TRUE, v |-> Null, i |-> i + 1]
          [] OTHER -> Fail

\* JSON.parse: [ok |-> FALSE] stands for the SyntaxError it throws
JSONParse(text) ==
    LET r == ParseValue(text, 1)
    IN  IF r.ok /\ r.i = Len(text) + 1 THEN [ok |-> TRUE, v |-> r.v] ELSE [ok |-> FALSE, v |-> Undef]

\* ----------------------------------------------------------- localStorage
\* A slot is absent (getItem returns null) or holds a text.

Absent == [present |-> FALSE, text |-> <<>>]
Stored(text) == [present |-> TRUE, text |-> text]

\* if (savedCrew): null and the empty string are falsy
SlotTruthy(slot) == slot.present /\ slot.text # <<>>

CorruptText == <<P("["), P("{"), S("id")>>

\* ------------------------------------------------------ storage management

\* loadStateFromStorage without its try/catch: a parse error leaves the function
loadStateUncaught(v, c0, s0, cs, ss) ==
    LET pc == JSONParse(cs.text)
        ps == JSONParse(ss.text)
        crewThrows == SlotTruthy(cs) /\ ~pc.ok
        statsThrows == ~crewThrows /\ SlotTruthy(ss) /\ ~ps.ok
    IN  [crew |-> IF SlotTruthy(cs) /\ pc.ok THEN pc.v ELSE c0,
         stats |-> IF ~crewThrows /\ SlotTruthy(ss) /\ ps.ok THEN ps.v ELSE s0,
         caught |-> FALSE,
         raised |-> crewThrows \/ statsThrows]

\* loadStateFromStorage.  Both getItem calls come first; the first parse that
\* throws ends the try block, keeping what was assigned before it.
loadStateFromStorage(v, c0, s0, cs, ss) ==
    LET pc == JSONParse(cs.text)
        ps == JSONParse(ss.text)
        crewThrows == SlotTruthy(cs) /\ ~pc.ok
        statsThrows == ~crewThrows /\ SlotTruthy(ss) /\ ~ps.ok
        c1 == IF SlotTruthy(cs) /\ pc.ok THEN pc.v ELSE c0
    IN  IF v = "nea24"
        THEN \* src/unnamed/part_000:69-86: seeded with mockStats
             [crew |-> c1,
              stats |-> IF crewThrows \/ statsThrows \/ ~SlotTruthy(ss) THEN mockStats ELSE ps.v,
              caught |-> crewThrows \/ statsThrows,
              raised |-> FALSE]
        ELSE \* src/js/app.js:57-67, src/unnamed/part_001:61-71
             [crew |-> c1,
              stats |-> IF ~crewThrows /\ SlotTruthy(ss) /\ ps.ok THEN ps.v ELSE s0,
              caught |-> crewThrows \/ statsThrows,
              raised |-> FALSE]

SaveOutcomes == {"ok", "failCrew", "failStats"}

\* saveStateToStorage without its try/catch: a failed write leaves the function
saveStateUncaught(c, s, cs, ss, outcome) ==
    [crewSlot |-> IF outcome = "failCrew" THEN cs ELSE Stored(JSONStringify(c)),
     statsSlot |-> IF outcome = "ok" THEN Stored(JSONStringify(s)) ELSE ss,
     caught |-> FALSE,
     raised |-> outcome # "ok"]

\* saveStateToStorage: setItem(crew) then setItem(stats) inside one try; the
\* outcome says which setItem, if any, throws (quota exceeded).
saveStateToStorage(c, s, cs, ss, outcome) ==
    [crewSlot |-> IF outcome = "failCrew" THEN cs ELSE Stored(JSONStringify(c)),
     statsSlot |-> IF outcome = "ok" THEN Stored(JSONStringify(s)) ELSE ss,
     caught |-> outcome # "ok",
     raised |-> FALSE]

\* ---------------------------------------------------------------- rendering

Markup == [t |-> "markup"]
CounterIds == {"cleanups", "trash", "crew", "impact"}
MarkupCounters == [c \in CounterIds |-> Markup]

\* the value each counter element shows, by element
StatTargets(s) ==
    [c \in CounterIds |->
        CASE c = "cleanups" -> s.cleanups
          [] c = "trash" -> s.trash
          [] c = "crew" -> s.crewMembers
          [] OTHER -> s.beaches]

\* AppState.crew can hold whatever the crew slot parsed to.  A method call
\* (push, filter, map) on a value that is no array, and a property access on
\* null, throw a TypeError.
IsArray(c) == c.t = "arr"
CrewLength(c) == IF IsArray(c) THEN Len(c.a) ELSE 0

\* renderCrewGrid: one card per member, in list order
renderCrewGrid(c) ==
    [i \in 1..Len(c.a) |->
        [name |-> c.a[i].name, role |-> c.a[i].role,
         joinedDate |-> c.a[i].joinedDate, removeId |-> c.a[i].id]]

\* animateCounter's closure after its k-th call: currentValue = k * increment,
\* increment = targetValue / (duration / 16)
AnimDone(target, k) == AnimFrameMs * k * target >= AnimDuration * target
AnimValue(target, k) ==
    IF AnimDone(target, k) THEN target ELSE (AnimFrameMs * k * target) \div AnimDuration

\* updateStats: what the counters show when the handler returns, and the
\* animation it leaves scheduled
updateStats(v, s, shown, running) ==
    LET tg == StatTargets(s)
    IN  IF v = "nea24"
        THEN \* src/unnamed/part_000:501-529
             [counters |-> [c \in CounterIds |-> Num(AnimValue(tg[c], 1))],
              anims |-> IF \E c \in CounterIds : ~AnimDone(tg[c], 1)
                        THEN Append(running, [target |-> tg, k |-> 1])
                        ELSE running]
        ELSE \* src/js/app.js:380-385, src/unnamed/part_001:475-480
             [counters |-> [c \in CounterIds |-> Num(tg[c])], anims |-> running]

\* renderUI at startup: renderCrewGrid, then updateStats.  threw: a TypeError
\* left it, and with it initializeApp, at the first of the two calls that
\* meets a value it cannot read.
renderUI(v, c, s, grid, shown, running) ==
    IF ~IsArray(c)
    THEN [crewGrid |-> grid, counters |-> shown, anims |-> running, threw |-> TRUE]
    ELSE IF s = Null
    THEN [crewGrid |-> [t |-> "cards", cards |-> renderCrewGrid(c)],
          counters |-> shown, anims |-> running, threw |-> TRUE]
    ELSE [crewGrid |-> [t |-> "cards", cards |-> renderCrewGrid(c)],
          counters |-> updateStats(v, s, shown, running).counters,
          anims |-> updateStats(v, s, shown, running).anims,
          threw |-> FALSE]

\* One turn of requestAnimationFrame: every animate callback that is still
\* scheduled runs once, in the order of scheduling, which is the order of the
\* animateCounter calls.  A batch is the four animations of one updateStats
\* call after k calls of animate; the animation of counter c is scheduled
\* while it has not reached its target.
Scheduled(b, c) == ~AnimDone(b.target[c], b.k)
LastWriter(running, c) ==
    CHOOSE i \in 1..Len(running) :
        /\ Scheduled(running[i], c)
        /\ \A j \in (i + 1)..Len(running) : ~Scheduled(running[j], c)
FrameCounters(shown, running) ==
    [c \in CounterIds |->
        IF \E i \in 1..Len(running) : Scheduled(running[i], c)
        THEN Num(AnimValue(running[LastWriter(running, c)].target[c],
                           running[LastWriter(running, c)].k + 1))
        ELSE shown[c]]
FrameAnims(running) ==
    SelectSeq([i \in 1..Len(running) |-> [running[i] EXCEPT !.k = @ + 1]],
              LAMBDA b : \E c \in CounterIds : Scheduled(b, c))

\* the counters once every scheduled callback has run to its end
RECURSIVE AllFrames(_, _)
AllFrames(shown, running) ==
    IF running = <<>> THEN shown
    ELSE AllFrames(FrameCounters(shown, running), FrameAnims(running))

\* ---------------------------------------------------------- crew management

\* AppState.crew.unshift(crewMember): the new member goes first
CrewAfterUnshift(c, m) == Arr(<<m>> \o c.a)

\* AppState.crew.push(crewMember)
CrewAfterPush(c, m) == Arr(Append(c.a, m))

\* the filter with its test inverted: member.id === id
CrewAfterFilterInverted(c, id) == Arr(SelectSeq(c.a, LAMBDA m : m.id = id))

\* AppState.crew.filter(member => member.id !== id)
CrewAfterFilter(c, id) == Arr(SelectSeq(c.a, LAMBDA m : m.id # id))

\* the handler without the crewMembers assignment
StatsWithCrewCountStale(s, c) == s

\* AppState.stats.crewMembers = AppState.crew.length
StatsWithCrewCount(s, c) == [s EXCEPT !.crewMembers = Len(c.a)]

\* Math.floor(Math.random() * 50) + 20.  Only which of the 50 equal bins of
\* [0, 1) Math.random() falls in matters: it is bin / 50 here.
RandomBins == {0, RandRange - 1}
\* Math.ceil in place of Math.floor: a value inside bin k rounds up to k + 1
RandomItemsCeil(bin) == ((bin * RandRange) \div RandRange) + 1 + RandBase
RandomItems(bin) == ((bin * RandRange) \div RandRange) + RandBase

\* handleScheduleCleanup without the cap on beaches
StatsAfterCleanupUncapped(s, items) ==
    [s EXCEPT !.cleanups = @ + 1, !.trash = @ + items, !.beaches = s.cleanups + 1]

\* the three assignments of handleScheduleCleanup
StatsAfterCleanup(s, items) ==
    LET n == s.cleanups + 1
    IN  [s EXCEPT !.cleanups = n, !.trash = s.trash + items, !.beaches = Min(n, BeachCap)]

NoNotice == [type |-> "none", kind |-> "none"]
NoOp == [op |-> "none", id |-> 0, hit |-> FALSE, save |-> "none", raised |-> FALSE]

\* ------------------------------------------------------------------ handlers
\* Each handler is an operator from the state it reads to the state it
\* leaves; raised says that an exception left the handler, and then the grid
\* and the notification, which come after the throw, are left as they were.

\* handleCrewSubmit, src/js/app.js:299-319
handleCrewSubmit(v, c, s, cs, ss, shown, running, m, outcome) ==
    LET c1 == CrewAfterPush(c, m)
        s1 == StatsWithCrewCount(s, c1)
        sv == saveStateToStorage(c1, s1, cs, ss, outcome)
        us == updateStats(v, s1, shown, running)
    IN  IF ~IsArray(c) \/ s = Null
        THEN \* push, or the assignment to stats.crewMembers after it, throws
             [crew |-> IF IsArray(c) THEN c1 ELSE c, stats |-> s, crewSlot |-> cs,
              statsSlot |-> ss, counters |-> shown, anims |-> running, raised |-> TRUE]
        ELSE
        [crew |-> c1, stats |-> s1, crewSlot |-> sv.crewSlot, statsSlot |-> sv.statsSlot,
         crewGrid |-> [t |-> "cards", cards |-> renderCrewGrid(c1)],
         counters |-> us.counters, anims |-> us.anims,
         notice |-> [type |-> "success", kind |-> "added"],
         raised |-> sv.raised]

\* removeCrewMember, src/js/app.js:352-361
removeCrewMember(v, c, s, cs, ss, shown, running, id, outcome) ==
    LET c1 == CrewAfterFilter(c, id)
        s1 == StatsWithCrewCount(s, c1)
        sv == saveStateToStorage(c1, s1, cs, ss, outcome)
        us == updateStats(v, s1, shown, running)
    IN  IF ~IsArray(c) \/ s = Null
        THEN \* filter, or the assignment to stats.crewMembers after it, throws
             [crew |-> IF IsArray(c) THEN c1 ELSE c, stats |-> s, crewSlot |-> cs,
              statsSlot |-> ss, counters |-> shown, anims |-> running, raised |-> TRUE]
        ELSE
        [crew |-> c1, stats |-> s1, crewSlot |-> sv.crewSlot, statsSlot |-> sv.statsSlot,
         crewGrid |-> [t |-> "cards", cards |-> renderCrewGrid(c1)],
         counters |-> us.counters, anims |-> us.anims,
         notice |-> [type |-> "success", kind |-> "removed"],
         raised |-> sv.raised]

\* handleScheduleCleanup, src/js/app.js:367-378
handleScheduleCleanup(v, c, s, cs, ss, shown, running, r, outcome) ==
    LET s1 == StatsAfterCleanup(s, RandomItems(r))
        sv == saveStateToStorage(c, s1, cs, ss, outcome)
        us == updateStats(v, s1, shown, running)
    IN  IF s = Null
        THEN \* AppState.stats.cleanups++ throws
             [crew |-> c, stats |-> s, crewSlot |-> cs, statsSlot |-> ss,
              counters |-> shown, anims |-> running, raised |-> TRUE]
        ELSE
        [crew |-> c, stats |-> s1, crewSlot |-> sv.crewSlot, statsSlot |-> sv.statsSlot,
         counters |-> us.counters, anims |-> us.anims,
         notice |-> [type |-> "success", kind |-> "cleanup"],
         raised |-> sv.raised]

\* ------------------------------------------------------- weather: JS data
\* A string is a sequence of characters; an object holds its properties in f.

Str(s) == [t |-> "str", s |-> s]
Obj(f) == [t |-> "obj", f |-> f]
EmptyObj == [t |-> "obj", f |-> [k \in {} |-> Undef]]

Nullish(v) == v.t \in {"undefined", "null"}
Truthy(v) ==
    /\ ~Nullish(v)
    /\ v # Num(0)
    /\ v # Str(<<>>)

\* v.k for a v that is neither null nor undefined
Prop(v, k) == IF v.t = "obj" /\ k \in DOMAIN v.f THEN v.f[k] ELSE Undef
\* v?.k
OptProp(v, k) == IF Nullish(v) THEN Undef ELSE Prop(v, k)
\* v?.[0]
OptFirst(v) == IF v.t = "arr" /\ Len(v.a) >= 1 THEN v.a[1] ELSE Undef
\* a || b
OrElse(a, b) == IF Truthy(a) THEN a ELSE b

UpperCase == <<"A", "B", "C", "D", "E", "F", "G", "H", "I", "J", "K", "L", "M",
               "N", "O", "P", "Q", "R", "S", "T", "U", "V", "W", "X", "Y", "Z">>
LowerCase == <<"a", "b", "c", "d", "e", "f", "g", "h", "i", "j", "k", "l", "m",
               "n", "o", "p", "q", "r", "s", "t", "u", "v", "w", "x", "y", "z">>

LowerChar(c) ==
    IF \E i \in 1..Len(UpperCase) : UpperCase[i] = c
    THEN LowerCase[CHOOSE i \in 1..Len(UpperCase) : UpperCase[i] = c]
    ELSE c

\* String.prototype.toLowerCase
toLowerCase(s) == [i \in 1..Len(s) |-> LowerChar(s[i])]

\* String.prototype.includes
includes(s, sub) ==
    \E i \in 0..(Len(s) - Len(sub)) : \A j \in 1..Len(sub) : s[i + j] = sub[j]

wThunder == <<"t", "h", "u", "n", "d", "e", "r">>
wThundery == wThunder \o <<"y">>
wRain == <<"r", "a", "i", "n">>
wShower == <<"s", "h", "o", "w", "e", "r">>
wCloud == <<"c", "l", "o", "u", "d">>
wCloudy == wCloud \o <<"y">>
wPartlyCloudy == <<"p", "a", "r", "t", "l", "y", " ">> \o wCloudy
wClear == <<"c", "l", "e", "a", "r">>
wSunny == <<"s", "u", "n", "n", "y">>
wWind == <<"w", "i", "n", "d">>
wWindy == wWind \o <<"y">>

\* getForecastEmoji with the rain test ahead of the thunder test
getForecastEmojiRainFirst(forecastText) ==
    IF forecastText.t # "str" THEN [threw |-> TRUE, emoji |-> "none"]
    ELSE LET text == toLowerCase(forecastText.s)
         IN  [threw |-> FALSE,
              emoji |->
                IF includes(text, wRain) \/ includes(text, wShower) THEN "rain"
                ELSE IF includes(text, wThundery) \/ includes(text, wThunder) THEN "thunderstorm"
                ELSE IF includes(text, wCloudy) \/ includes(text, wCloud) THEN "cloud"
                ELSE IF includes(text, wPartlyCloudy) THEN "partlyCloudy"
                ELSE IF includes(text, wClear) \/ includes(text, wSunny) THEN "sun"
                ELSE IF includes(text, wWindy) \/ includes(text, wWind) THEN "wind"
                ELSE "generic"]

\* getForecastEmoji, src/unnamed/part_000:381-390; the argument is a JS
\* value, and a value without toLowerCase makes the call throw.
getForecastEmoji(forecastText) ==
    IF forecastText.t # "str" THEN [threw |-> TRUE, emoji |-> "none"]
    ELSE LET text == toLowerCase(forecastText.s)
         IN  [threw |-> FALSE,
              emoji |->
                IF includes(text, wThundery) \/ includes(text, wThunder) THEN "thunderstorm"
                ELSE IF includes(text, wRain) \/ includes(text, wShower) THEN "rain"
                ELSE IF includes(text, wCloudy) \/ includes(text, wCloud) THEN "cloud"
                ELSE IF includes(text, wPartlyCloudy) THEN "partlyCloudy"
                ELSE IF includes(text, wClear) \/ includes(text, wSunny) THEN "sun"
                ELSE IF includes(text, wWindy) \/ includes(text, wWind) THEN "wind"
                ELSE "generic"]

\* getWeatherEmoji, src/js/app.js:271-281; === never holds for a non-number
getWeatherEmoji(code) ==
    IF code.t # "num" THEN "generic"
    ELSE LET c == code.n
         IN  IF c = 0 THEN "sun"
             ELSE IF c = 1 \/ c = 2 THEN "partlyCloudy"
             ELSE IF c = 3 THEN "cloud"
             ELSE IF c >= 45 /\ c <= 48 THEN "fog"
             ELSE IF c >= 51 /\ c <= 77 THEN "rain"
             ELSE IF c >= 80 /\ c <= 82 THEN "thunderstorm"
             ELSE IF c >= 85 /\ c <= 86 THEN "snow"
             ELSE "generic"

\* ------------------------------------------- weather: condition texts
\* The texts getForecastEmoji is tried on: one or two words of a vocabulary
\* of condition words, in lower case, in upper case or capitalised.

UpperChar(c) ==
    IF \E i \in 1..Len(LowerCase) : LowerCase[i] = c
    THEN UpperCase[CHOOSE i \in 1..Len(LowerCase) : LowerCase[i] = c]
    ELSE c

LetterCases == {"lower", "upper", "capital"}
InCase(w, mode) ==
    [i \in 1..Len(w) |->
        IF mode = "upper" \/ (mode = "capital" /\ i = 1) THEN UpperChar(w[i]) ELSE w[i]]

wShowers == wShower \o <<"s">>
wFair == <<"f", "a", "i", "r">>
wHazy == <<"h", "a", "z", "y">>
wSpace == <<" ">>
ConditionWords ==
    {wThundery, wShowers, wRain, wPartlyCloudy, wCloudy, wClear, wSunny, wWindy, wFair, wHazy}

ConditionTexts ==
    {InCase(w, mode) : w \in ConditionWords, mode \in LetterCases}
    \cup {InCase(w1 \o wSpace \o w2, mode) :
              w1 \in ConditionWords, w2 \in ConditionWords, mode \in LetterCases}

\* what a caller can pass: a text, or a day's missing or numeric forecast
EmojiArguments == {[t |-> "str", s |-> x] : x \in ConditionTexts} \cup {Undef, Num(7)}

NotClassified == [t |-> "none"]

\* -------------------------------------------------------- weather: texts

tPartlyCloudy == Str(<<"P", "a", "r", "t", "l", "y", " ", "c", "l", "o", "u", "d", "y">>)
tThunderyShowers == Str(<<"T", "h", "u", "n", "d", "e", "r", "y", " ", "s", "h", "o", "w", "e", "r", "s">>)
tCloudy == Str(<<"C", "l", "o", "u", "d", "y">>)
tFair == Str(<<"F", "a", "i", "r">>)
tWindy == Str(<<"W", "i", "n", "d", "y">>)
tNE == Str(<<"N", "E">>)
tS == Str(<<"S">>)

\* getDateString(daysOffset): the ISO date of today + daysOffset
getDateString(daysOffset) == [t |-> "isodate", off |-> daysOffset]

\* formatDateForDisplay: a value that is no ISO date shows as Invalid Date
formatDateForDisplay(d) ==
    IF d.t = "isodate" THEN [t |-> "shown", off |-> d.off] ELSE [t |-> "invalidDate"]

Range(low, high) == Obj([low |-> Num(low), high |-> Num(high)])

\* ---------------------------------------------------- weather: mock data
\* Timestamps and validity periods, which no code reads, are left out.

\* getMockWeatherData, src/js/app.js:230-238
getMockWeatherDataOM ==
    Obj([current |-> Obj([temperature_2m |-> Num(22), weather_code |-> Num(80),
                          wind_speed_10m |-> Num(12)])])

\* getMockWeatherData, src/unnamed/part_000:220-252
getMockWeatherData24 ==
    Obj([items |-> Arr(<<
            Obj([general |-> Obj([forecast |-> tPartlyCloudy,
                                  relative_humidity |-> Range(60, 85),
                                  temperature |-> Range(22, 28),
                                  wind |-> Obj([speed |-> Range(8, 15), direction |-> tNE])])])>>),
         api_info |-> Obj([status |-> Str(<<"h", "e", "a", "l", "t", "h", "y">>)])])

MockDay(off, text, hlow, hhigh, tlow, thigh) ==
    Obj([date |-> getDateString(off), forecast |-> text,
         relative_humidity |-> Range(hlow, hhigh), temperature |-> Range(tlow, thigh)])

\* getMock4DayForecast, src/unnamed/part_000:254-290
getMock4DayForecast ==
    Obj([items |-> Arr(<<Obj([forecasts |-> Arr(<<
            MockDay(0, tPartlyCloudy, 60, 85, 22, 28),
            MockDay(1, tThunderyShowers, 70, 90, 21, 26),
            MockDay(2, tCloudy, 65, 85, 23, 27),
            MockDay(3, tPartlyCloudy, 60, 80, 22, 28)>>)])>>)])

MockDay4(off, text, hlow, hhigh) ==
    Obj([date |-> getDateString(off), forecast |-> text, relative_humidity |-> Range(hlow, hhigh)])

\* getMockForecastData, src/unnamed/part_001:234-265
getMockForecastData ==
    Obj([items |-> Arr(<<Obj([forecasts |-> Arr(<<
            MockDay4(0, tPartlyCloudy, 60, 80),
            MockDay4(1, tThunderyShowers, 70, 90),
            MockDay4(2, tCloudy, 65, 85),
            MockDay4(3, tPartlyCloudy, 60, 80)>>)])>>)])

\* getMockReadingsData, src/unnamed/part_001:267-281
getMockReadingsData ==
    Obj([items |-> Arr(<<Obj([
            metadata |-> Obj([stations |-> Arr(<<Obj([id |-> Str(<<"S", "1">>)])>>)]),
            readings |-> Arr(<<Obj([station_id |-> Str(<<"S", "1">>), value |-> Num(24)])>>)])>>)])

\* --------------------------------------------------- weather: the panels
\* dom holds the weather elements: current (#current-weather), ocean
\* (#ocean-conditions), bestTime (the element created with id best-time),
\* bestTimeId (the id that element carries now), grid (#weather-grid) and
\* map (.map-placeholder).  A render result is [threw, wrote, dom]: whether
\* an exception left the function, whether it wrote any element, and the
\* elements as it left them.

MarkupDom ==
    [current |-> Markup, ocean |-> Markup, bestTime |-> Markup, bestTimeId |-> "best-time",
     grid |-> Markup, map |-> Markup]

\* updateWeatherUI, src/js/app.js:240-269
updateWeatherUIOM(weatherData, dom) ==
    IF Nullish(weatherData) THEN [threw |-> TRUE, wrote |-> FALSE, dom |-> dom]
    ELSE LET current == Prop(weatherData, "current")
         IN  IF Nullish(current) THEN [threw |-> TRUE, wrote |-> FALSE, dom |-> dom]
             ELSE [threw |-> FALSE, wrote |-> TRUE,
                   dom |-> [dom EXCEPT
                       !.current = [t |-> "current",
                                    emoji |-> getWeatherEmoji(Prop(current, "weather_code")),
                                    temp |-> Prop(current, "temperature_2m"),
                                    wind |-> Prop(current, "wind_speed_10m")],
                       !.ocean = [t |-> "moderateWaves"],
                       !.bestTime = [t |-> "next6Hours"]]]

\* one card of renderForecastGrid, src/unnamed/part_000:347-366
ForecastCard24(day, index) ==
    [date |-> formatDateForDisplay(Prop(day, "date")),
     emoji |-> getForecastEmoji(Prop(day, "forecast")).emoji,
     forecast |-> Prop(day, "forecast"),
     tempLow |-> OrElse(OptProp(Prop(day, "temperature"), "low"), Num(22)),
     tempHigh |-> OrElse(OptProp(Prop(day, "temperature"), "high"), Num(28)),
     humLow |-> OrElse(OptProp(Prop(day, "relative_humidity"), "low"), Num(60)),
     humHigh |-> OrElse(OptProp(Prop(day, "relative_humidity"), "high"), Num(85)),
     best |-> index = 0]

\* one card of renderForecastGrid, src/unnamed/part_001:329-340
ForecastCard4Day(day, index) ==
    [date |-> formatDateForDisplay(Prop(day, "date")),
     emoji |-> getForecastEmoji(Prop(day, "forecast")).emoji,
     forecast |-> Prop(day, "forecast"),
     humLow |-> OrElse(OptProp(Prop(day, "relative_humidity"), "low"), Num(65)),
     humHigh |-> OrElse(OptProp(Prop(day, "relative_humidity"), "high"), Num(85)),
     best |-> index = 0]

\* renderForecastGrid, src/unnamed/part_000:339-370 and part_001:323-344.
\* forecasts.map throws on a value that is no array, day.forecast on a day
\* that is null, getForecastEmoji on a text that is no string.
renderForecastGrid(v, forecastData, dom) ==
    LET forecasts == OptProp(OptFirst(OptProp(forecastData, "items")), "forecasts")
    IN  IF ~Truthy(forecasts) THEN [threw |-> FALSE, wrote |-> FALSE, dom |-> dom]
        ELSE IF forecasts.t # "arr" THEN [threw |-> TRUE, wrote |-> FALSE, dom |-> dom]
        ELSE IF \E i \in 1..Len(forecasts.a) :
                    \/ Nullish(forecasts.a[i])
                    \/ getForecastEmoji(Prop(forecasts.a[i], "forecast")).threw
        THEN [threw |-> TRUE, wrote |-> FALSE, dom |-> dom]
        ELSE [threw |-> FALSE, wrote |-> TRUE,
              dom |-> [dom EXCEPT !.grid =
                  [t |-> "cards",
                   cards |-> [i \in 1..Len(forecasts.a) |->
                                IF v = "nea24" THEN ForecastCard24(forecasts.a[i], i - 1)
                                ELSE ForecastCard4Day(forecasts.a[i], i - 1)]]]]

\* updateWeatherUI, src/unnamed/part_000:298-337
updateWeatherUI24(weatherData, dom) ==
    LET item == OptFirst(OptProp(weatherData, "items"))
        general == OrElse(Prop(item, "general"), EmptyObj)
        temp == OrElse(Prop(general, "temperature"), EmptyObj)
        humidity == OrElse(Prop(general, "relative_humidity"), EmptyObj)
        wind == Prop(general, "wind")
        text == OrElse(Prop(general, "forecast"), tPartlyCloudy)
        emoji == getForecastEmoji(text)
        d1 == [dom EXCEPT
                !.current = [t |-> "current", emoji |-> emoji.emoji,
                             tempHigh |-> OrElse(Prop(temp, "high"), Num(28)),
                             humLow |-> OrElse(Prop(humidity, "low"), Num(60)),
                             humHigh |-> OrElse(Prop(humidity, "high"), Num(85)),
                             windLow |-> OrElse(OptProp(OptProp(wind, "speed"), "low"), Num(8)),
                             windHigh |-> OrElse(OptProp(OptProp(wind, "speed"), "high"), Num(15)),
                             windDir |-> OrElse(OptProp(wind, "direction"), tNE)],
                !.ocean = [t |-> "ocean", forecast |-> text,
                           humLow |-> OrElse(Prop(humidity, "low"), Num(60)),
                           humHigh |-> OrElse(Prop(humidity, "high"), Num(85)),
                           tempLow |-> OrElse(OptProp(Prop(general, "temperature"), "low"), Num(22)),
                           tempHigh |-> OrElse(OptProp(Prop(general, "temperature"), "high"), Num(28))]]
        g == renderForecastGrid("nea24", getMock4DayForecast, d1)
    IN  IF ~Truthy(item) THEN [threw |-> FALSE, wrote |-> FALSE, dom |-> dom]
        ELSE IF emoji.threw THEN [threw |-> TRUE, wrote |-> FALSE, dom |-> dom]
        ELSE [threw |-> g.threw, wrote |-> TRUE, dom |-> g.dom]

\* updateWeatherUI, src/unnamed/part_001:289-321
updateWeatherUI4Day(forecastData, readingsData, dom) ==
    LET reading == OptFirst(OptProp(OptFirst(OptProp(readingsData, "items")), "readings"))
        day0 == OptFirst(OptProp(OptFirst(OptProp(forecastData, "items")), "forecasts"))
        d1 == IF Truthy(reading)
              THEN [dom EXCEPT !.current =
                      [t |-> "current", temp |-> Prop(reading, "value"),
                       humidity |-> OrElse(OptProp(OptProp(day0, "relative_humidity"), "high"),
                                           Num(75))]]
              ELSE dom
        d2 == IF Truthy(day0)
              THEN [d1 EXCEPT !.ocean =
                      [t |-> "ocean", forecast |-> Prop(day0, "forecast"),
                       humLow |-> OrElse(OptProp(Prop(day0, "relative_humidity"), "low"), Num(70)),
                       humHigh |-> OrElse(OptProp(Prop(day0, "relative_humidity"), "high"), Num(85))]]
              ELSE d1
        found == dom.bestTimeId = "best-time"
        d3 == IF found
              THEN [d2 EXCEPT !.bestTime = [t |-> "fourDayHeader"],
                              !.bestTimeId = "forecast-container"]
              ELSE d2
        g == IF found THEN renderForecastGrid("nea4day", forecastData, d3)
             ELSE [threw |-> FALSE, wrote |-> FALSE, dom |-> d3]
    IN  [threw |-> g.threw, wrote |-> d3 # dom \/ g.wrote, dom |-> g.dom]

\* ---------------------------------------------- weather: fetchWeatherData

NotJson == [t |-> "notjson"]

updateWeatherUI(v, d1, d2, dom) ==
    CASE v = "openmeteo" -> updateWeatherUIOM(d1, dom)
      [] v = "nea24" -> updateWeatherUI24(d1, dom)
      [] OTHER -> updateWeatherUI4Day(d1, d2, dom)

\* the arguments the catch block renders
MockData(v) ==
    CASE v = "openmeteo" -> [d1 |-> getMockWeatherDataOM, d2 |-> Undef]
      [] v = "nea24" -> [d1 |-> getMockWeatherData24, d2 |-> Undef]
      [] OTHER -> [d1 |-> getMockForecastData, d2 |-> getMockReadingsData]

\* The catch block of fetchWeatherData, entered with the elements as the try
\* block left them.  rejected: an exception leaves fetchWeatherData.
fetchCatch(v, dom, w) ==
    LET r == updateWeatherUI(v, MockData(v).d1, MockData(v).d2, dom)
    IN  [dom |-> r.dom,
         weather |-> IF v = "nea24" THEN MockData(v).d1 ELSE w,
         src |-> IF r.wrote THEN "mock" ELSE "none",
         rejected |-> r.threw,
         d1 |-> MockData(v).d1, d2 |-> MockData(v).d2]

\* fetchWeatherData with the render of the live data outside the try block
fetchRenderUncaught(v, d1, d2, dom, w) ==
    LET r == updateWeatherUI(v, d1, d2, dom)
    IN  [dom |-> r.dom, weather |-> IF v = "nea24" THEN d1 ELSE w,
         src |-> IF r.wrote THEN "live" ELSE "none", rejected |-> r.threw,
         d1 |-> d1, d2 |-> d2]

\* The end of the try block, once every body is parsed: the render of the
\* live data, and the catch block if the render throws.
fetchRender(v, d1, d2, dom, w) ==
    LET w1 == IF v = "nea24" THEN d1 ELSE w
        r == updateWeatherUI(v, d1, d2, dom)
    IN  IF r.threw THEN fetchCatch(v, r.dom, w1)
        ELSE [dom |-> r.dom, weather |-> w1,
              src |-> IF r.wrote THEN "live" ELSE "none", rejected |-> FALSE,
              d1 |-> d1, d2 |-> d2]

\* if (!response.ok) throw, src/unnamed/part_000:201-203; the other two
\* variants do not look at the status
StatusThrows(v, ok) == v = "nea24" /\ ~ok

\* The bodies an answer can carry, by variant and request.
LiveGeneral ==
    [forecast |-> tThunderyShowers, relative_humidity |-> Range(55, 95),
     temperature |-> Range(24, 33),
     wind |-> Obj([speed |-> Range(10, 20), direction |-> tS])]
Items(x) == Obj([items |-> Arr(<<x>>)])

BodiesOM ==
    {NotJson, Null, EmptyObj,
     Obj([current |-> Obj([temperature_2m |-> Num(30), weather_code |-> Num(0),
                           wind_speed_10m |-> Num(5)])])}
Bodies24 ==
    {NotJson, EmptyObj, Obj([items |-> Arr(<<>>)]),
     Items(Obj([general |-> Obj(LiveGeneral)])),
     Items(Obj([general |-> Obj([forecast |-> tWindy, temperature |-> Range(24, 33)])])),
     Items(Obj([general |-> Obj([forecast |-> Num(7)])]))}
BodiesForecast ==
    {NotJson, EmptyObj,
     Items(Obj([forecasts |-> Arr(<<Obj([date |-> getDateString(0), forecast |-> tWindy]),
                                    MockDay4(1, tFair, 55, 95)>>)])),
     Items(Obj([forecasts |-> Arr(<<MockDay4(0, tFair, 50, 90),
                                    Obj([date |-> getDateString(1)])>>)]))}
BodiesReadings ==
    {NotJson, EmptyObj,
     Items(Obj([readings |-> Arr(<<Obj([station_id |-> Str(<<"S", "9">>), value |-> Num(31)])>>)]))}

Bodies(v, pc) ==
    CASE v = "openmeteo" -> BodiesOM
      [] v = "nea24" -> Bodies24
      [] pc = "fetch" -> BodiesForecast
      [] OTHER -> BodiesReadings

\* the weather elements a fetch renders
Panels(dom) == <<dom.current, dom.ocean, dom.bestTime, dom.grid>>

\* How the last invocation to end ended: the request that ended it, whether
\* every status was a success, what was rendered (src, d1, d2), the elements
\* before (pre), the order number of the invocation (seq), and what the
\* invocation issued last among those that have ended left (newest).
NoSettle ==
    [req |-> "none", okAll |-> TRUE, src |-> "none", rejected |-> FALSE, pre |-> MarkupDom,
     d1 |-> Undef, d2 |-> Undef, seq |-> 0,
     newest |-> [seq |-> 0, panels |-> Panels(MarkupDom), weather |-> Null]]

\* ------------------------------------------------------------- event cards
\* The join buttons of the event cards in the page, and what a button shows.

EventIds == {"beach1", "beach2", "beach3"}

\* the page as loaded: no listener, every button enabled, nothing announced
NoListeners ==
    [listeners |-> 0,
     buttons |-> [e \in EventIds |-> [disabled |-> FALSE, joined |-> FALSE, notices |-> 0]]]

\* only src/unnamed/part_000 has setupEventButtons
SetsUpEventButtons(v) == v = "nea24"

\* setupEventButtons: addEventListener with a new closure on every button
setupEventButtons(ev) == [ev EXCEPT !.listeners = @ + 1]

\* initializeApp: setupEventListeners ends with setupEventButtons(), and so
\* does renderUI unless it throws before
EventButtonsAtStartup(v, ev, renderThrew) ==
    IF ~SetsUpEventButtons(v) THEN ev
    ELSE IF renderThrew THEN setupEventButtons(ev)
    ELSE setupEventButtons(setupEventButtons(ev))

\* One click on the join button of event e: every listener on the button
\* runs, each showing the notification and marking the button.
ClickJoin(ev, e) ==
    IF ev.listeners = 0 THEN ev
    ELSE [ev EXCEPT !.buttons[e] = [disabled |-> TRUE, joined |-> TRUE,
                                    notices |-> @.notices + ev.listeners]]

\* -------------------------------------------------------------------- state

crewVars == <<crew, stats, crewSlot, statsSlot, crewGrid, counters, anims>>
weatherVars == <<userLocation, weather, locationBtn, geoQueries, fetches, weatherDom, lastSettle>>
vars == <<events, classified, variant, phase, geoSupported, now, notice, used, lastOp, crewVars, weatherVars>>

\* What an earlier session of this script leaves in the store: four cleanups
\* of 20 items each and no crew.
ReturningStats == StatsAfterCleanup(StatsAfterCleanup(StatsAfterCleanup(StatsAfterCleanup(
                      ZeroStats, RandomItems(0)), RandomItems(0)), RandomItems(0)), RandomItems(0))

InitCrewSlots == {Absent, Stored(<<>>), Stored(CorruptText), Stored(JSONStringify(Arr(<<>>)))}
InitStatsSlots == {Absent, Stored(CorruptText), Stored(JSONStringify(ReturningStats))}

\* What something other than these scripts can leave under the two keys:
\* texts that parse, to null or to a number.
ForeignCrewSlots == {Stored(JSONStringify(Null)), Stored(JSONStringify(Num(7)))}
ForeignStatsSlots == {Stored(JSONStringify(Null))}

Positions == {[t |-> "obj", lat |-> 1, lng |-> 103, accuracy |-> 20]}

\* The script has been evaluated (AppState constructed); DOMContentLoaded has
\* not fired yet.  The store holds what earlier visits, or anything else, left.
Init ==
    /\ variant \in Variants
    /\ phase = "constructed"
    /\ geoSupported \in BOOLEAN
    /\ crew = Arr(<<>>)
    /\ stats = ZeroStats
    /\ crewSlot \in InitCrewSlots \cup ForeignCrewSlots
    /\ statsSlot \in InitStatsSlots \cup ForeignStatsSlots
    /\ now = 1
    /\ crewGrid = Markup
    /\ counters = MarkupCounters
    /\ anims = <<>>
    /\ notice = NoNotice
    /\ userLocation = Null
    /\ weather = Null
    /\ locationBtn = [text |-> "original", disabled |-> FALSE]
    /\ geoQueries = <<>>
    /\ fetches = <<>>
    /\ weatherDom = MarkupDom
    /\ lastSettle = NoSettle
    /\ classified = NotClassified
    /\ events = NoListeners
    /\ used = [ops |-> 0, failures |-> 0, fetches |-> 0, frames |-> 0]
    /\ lastOp = NoOp

\* a write failure is drawn only while the run has failures left
CanFail(outcome) == outcome = "ok" \/ used.failures < MaxWriteFailures
UsedAfter(outcome) ==
    [used EXCEPT !.ops = @ + 1, !.failures = IF outcome = "ok" THEN @ ELSE @ + 1]

\* The part of fetchWeatherData that runs before its first await: the request
\* is issued and the invocation suspends.  src/js/app.js:212-219 returns at
\* once without a location.
RequiresLocation(v) == v = "openmeteo"
startFetch(v, loc, fs, seq) ==
    IF RequiresLocation(v) /\ Nullish(loc) THEN fs
    ELSE Append(fs, [pc |-> "fetch", seq |-> seq, okAll |-> TRUE, body |-> Undef, fdata |-> Undef,
                     loc |-> IF RequiresLocation(v) THEN loc ELSE Null])

\* renderUI calls fetchWeatherData in src/unnamed/part_000:535-542 only
FetchesAtStartup(v) == v = "nea24"

\* DOMContentLoaded: initializeApp = loadStateFromStorage, setupEventListeners,
\* renderUI.  The listeners are attached before renderUI, so the page takes
\* clicks even when renderUI throws.
InitializeApp ==
    /\ phase = "constructed"
    /\ \E ld \in {loadStateFromStorage(variant, crew, stats, crewSlot, statsSlot)} :
       \E ui \in {renderUI(variant, ld.crew, ld.stats, crewGrid, counters, anims)} :
           /\ crew' = ld.crew
           /\ stats' = ld.stats
           /\ crewGrid' = ui.crewGrid
           /\ counters' = ui.counters
           /\ anims' = ui.anims
           /\ lastOp' = [op |-> "init", id |-> 0, hit |-> FALSE, save |-> "none",
                         raised |-> ld.raised \/ ui.threw]
           /\ events' = EventButtonsAtStartup(variant, events, ui.threw)
           /\ fetches' = IF FetchesAtStartup(variant) /\ ~ui.threw
                         THEN startFetch(variant, userLocation, fetches, used.fetches + 1)
                         ELSE fetches
           /\ used' = IF FetchesAtStartup(variant) /\ ~ui.threw
                      THEN [used EXCEPT !.fetches = @ + 1] ELSE used
    /\ phase' = "ready"
    /\ UNCHANGED <<classified, variant, geoSupported, crewSlot, statsSlot, now, notice, userLocation,
                   weather, locationBtn, geoQueries, weatherDom, lastSettle>>

\* The user reloads the page: the script is evaluated afresh, the store
\* stays, and what the old page was waiting for is dropped.
ReloadPage ==
    /\ phase = "ready"
    /\ used.ops < MaxOps
    /\ phase' = "constructed"
    /\ crew' = Arr(<<>>)
    /\ stats' = ZeroStats
    /\ crewGrid' = Markup
    /\ counters' = MarkupCounters
    /\ anims' = <<>>
    /\ notice' = NoNotice
    /\ userLocation' = Null
    /\ weather' = Null
    /\ locationBtn' = [text |-> "original", disabled |-> FALSE]
    /\ geoQueries' = <<>>
    /\ fetches' = <<>>
    /\ weatherDom' = MarkupDom
    /\ lastSettle' = NoSettle
    /\ events' = NoListeners
    /\ used' = [used EXCEPT !.ops = @ + 1]
    /\ lastOp' = [op |-> "reload", id |-> 0, hit |-> FALSE, save |-> "none", raised |-> FALSE]
    /\ UNCHANGED <<classified, variant, geoSupported, crewSlot, statsSlot, now>>

\* Date.now() advances.  Only the ids of members read the clock, so an advance
\* shows only once a member carries the current value; MaxCrew distinct ids
\* are all a run can use.
Tick ==
    /\ now < MaxCrew
    /\ \E k \in 1..CrewLength(crew) : crew.a[k].id = now
    /\ now' = now + 1
    /\ UNCHANGED <<events, classified, variant, phase, geoSupported, notice, used, lastOp, crewVars, weatherVars>>

\* the crew form is submitted
CrewSubmit ==
    /\ phase = "ready"
    /\ used.ops < MaxOps
    /\ CrewLength(crew) < MaxCrew
    /\ \E name \in Names, role \in Roles, date \in Dates, outcome \in SaveOutcomes :
        /\ CanFail(outcome)
        /\ \E h \in {handleCrewSubmit(variant, crew, stats, crewSlot, statsSlot, counters, anims,
                                     Member(now, name, role, date), outcome)} :
               /\ crew' = h.crew
               /\ stats' = h.stats
               /\ crewSlot' = h.crewSlot
               /\ statsSlot' = h.statsSlot
               /\ crewGrid' = IF h.raised THEN crewGrid ELSE h.crewGrid
               /\ counters' = h.counters
               /\ anims' = h.anims
               /\ notice' = IF h.raised THEN notice ELSE h.notice
               /\ lastOp' = [op |-> "add", id |-> now, hit |-> FALSE, save |-> outcome, raised |-> h.raised]
        /\ used' = UsedAfter(outcome)
    /\ UNCHANGED <<events, classified, variant, phase, geoSupported, now, weatherVars>>

\* the ids removeCrewMember is called with: those of the members, and one
\* that no member carries (Date.now() is never 0)
RemoveIds(c) == {c.a[k].id : k \in 1..CrewLength(c)} \cup {0}

\* removeCrewMember(id) is called, from a card's button or otherwise
RemoveCrew ==
    /\ phase = "ready"
    /\ used.ops < MaxOps
    /\ \E id \in RemoveIds(crew), outcome \in SaveOutcomes :
        /\ CanFail(outcome)
        /\ \E h \in {removeCrewMember(variant, crew, stats, crewSlot, statsSlot, counters, anims,
                                     id, outcome)} :
               /\ crew' = h.crew
               /\ stats' = h.stats
               /\ crewSlot' = h.crewSlot
               /\ statsSlot' = h.statsSlot
               /\ crewGrid' = IF h.raised THEN crewGrid ELSE h.crewGrid
               /\ counters' = h.counters
               /\ anims' = h.anims
               /\ notice' = IF h.raised THEN notice ELSE h.notice
               /\ lastOp' = [op |-> "remove", id |-> id, hit |-> \E k \in 1..CrewLength(crew) : crew.a[k].id = id, save |-> outcome, raised |-> h.raised]
        /\ used' = UsedAfter(outcome)
    /\ UNCHANGED <<events, classified, variant, phase, geoSupported, now, weatherVars>>

\* the schedule-cleanup button is clicked
ScheduleCleanup ==
    /\ phase = "ready"
    /\ used.ops < MaxOps
    /\ \E r \in RandomBins, outcome \in SaveOutcomes :
        /\ CanFail(outcome)
        /\ \E h \in {handleScheduleCleanup(variant, crew, stats, crewSlot, statsSlot, counters,
                                          anims, r, outcome)} :
               /\ stats' = h.stats
               /\ crewSlot' = h.crewSlot
               /\ statsSlot' = h.statsSlot
               /\ counters' = h.counters
               /\ anims' = h.anims
               /\ notice' = IF h.raised THEN notice ELSE h.notice
               /\ lastOp' = [op |-> "cleanup", id |-> 0, hit |-> FALSE, save |-> outcome, raised |-> h.raised]
        /\ used' = UsedAfter(outcome)
    /\ UNCHANGED <<events, classified, variant, phase, geoSupported, crew, now, crewGrid, weatherVars>>

\* ------------------------------------------------------ location and weather

\* enableLocation, src/js/app.js:163-196, up to the getCurrentPosition call.
\* A disabled button dispatches no click.
EnableLocation ==
    /\ phase = "ready"
    /\ ~locationBtn.disabled
    /\ used.fetches + Len(geoQueries) < MaxFetches
    /\ IF ~geoSupported
       THEN /\ notice' = [type |-> "error", kind |-> "geoUnsupported"]
            /\ UNCHANGED <<locationBtn, geoQueries>>
       ELSE /\ geoQueries' = Append(geoQueries, [originalText |-> locationBtn.text])
            /\ locationBtn' = [text |-> "getting", disabled |-> TRUE]
            /\ UNCHANGED notice
    /\ lastOp' = [op |-> "enableLocation", id |-> 0, hit |-> FALSE, save |-> "none", raised |-> FALSE]
    /\ UNCHANGED <<events, classified, variant, phase, geoSupported, now, used, crewVars, userLocation, weather,
                   fetches, weatherDom, lastSettle>>

RemoveAt(seq, i) == [j \in 1..(Len(seq) - 1) |-> IF j < i THEN seq[j] ELSE seq[j + 1]]

\* the success callback without the two lines that restore the button
GeoSuccessButtonStuck ==
    /\ \E i \in 1..Len(geoQueries), pos \in Positions :
        /\ userLocation' = pos
        /\ weatherDom' = [weatherDom EXCEPT !.map = [t |-> "location", loc |-> pos]]
        /\ fetches' = startFetch(variant, pos, fetches, used.fetches + 1)
        /\ notice' = [type |-> "success", kind |-> "locationEnabled"]
        /\ geoQueries' = RemoveAt(geoQueries, i)
    /\ used' = [used EXCEPT !.fetches = @ + 1]
    /\ lastOp' = [op |-> "geoSuccess", id |-> 0, hit |-> FALSE, save |-> "none", raised |-> FALSE]
    /\ UNCHANGED <<events, classified, variant, phase, geoSupported, now, crewVars, weather, locationBtn,
                   lastSettle>>

\* the success callback of getCurrentPosition
GeoSuccess ==
    /\ \E i \in 1..Len(geoQueries), pos \in Positions :
        /\ userLocation' = pos
        /\ weatherDom' = [weatherDom EXCEPT !.map = [t |-> "location", loc |-> pos]]
        /\ fetches' = startFetch(variant, pos, fetches, used.fetches + 1)
        /\ notice' = [type |-> "success", kind |-> "locationEnabled"]
        /\ locationBtn' = [text |-> geoQueries[i].originalText, disabled |-> FALSE]
        /\ geoQueries' = RemoveAt(geoQueries, i)
    /\ used' = [used EXCEPT !.fetches = @ + 1]
    /\ lastOp' = [op |-> "geoSuccess", id |-> 0, hit |-> FALSE, save |-> "none", raised |-> FALSE]
    /\ UNCHANGED <<events, classified, variant, phase, geoSupported, now, crewVars, weather, lastSettle>>

\* the error callback without the two lines that restore the button
GeoErrorButtonStuck ==
    /\ \E i \in 1..Len(geoQueries) :
        /\ notice' = [type |-> "error", kind |-> "enableLocation"]
        /\ geoQueries' = RemoveAt(geoQueries, i)
    /\ lastOp' = [op |-> "geoError", id |-> 0, hit |-> FALSE, save |-> "none", raised |-> FALSE]
    /\ UNCHANGED <<events, classified, variant, phase, geoSupported, now, used, crewVars, userLocation,
                   weather, locationBtn, fetches, weatherDom, lastSettle>>

\* the error callback of getCurrentPosition
GeoError ==
    /\ \E i \in 1..Len(geoQueries) :
        /\ notice' = [type |-> "error", kind |-> "enableLocation"]
        /\ locationBtn' = [text |-> geoQueries[i].originalText, disabled |-> FALSE]
        /\ geoQueries' = RemoveAt(geoQueries, i)
    /\ lastOp' = [op |-> "geoError", id |-> 0, hit |-> FALSE, save |-> "none", raised |-> FALSE]
    /\ UNCHANGED <<events, classified, variant, phase, geoSupported, now, used, crewVars, userLocation, weather,
                   fetches, weatherDom, lastSettle>>

\* fetchWeatherData() is called on its own, as renderUI of
\* src/unnamed/part_000:539 calls it, with whatever AppState.userLocation holds
FetchWeather ==
    /\ phase = "ready"
    /\ used.fetches + Len(geoQueries) < MaxFetches
    /\ fetches' = startFetch(variant, userLocation, fetches, used.fetches + 1)
    /\ used' = [used EXCEPT !.fetches = @ + 1]
    /\ lastOp' = [op |-> "fetchWeatherData", id |-> 0, hit |-> FALSE, save |-> "none", raised |-> FALSE]
    /\ UNCHANGED <<events, classified, variant, phase, geoSupported, now, notice, crewVars, userLocation,
                   weather, locationBtn, geoQueries, weatherDom, lastSettle>>

\* invocation i ends: r is what its last continuation did
Settles(i, req, okAll, r) ==
    /\ weatherDom' = r.dom
    /\ weather' = r.weather
    /\ fetches' = RemoveAt(fetches, i)
    /\ lastSettle' = [req |-> req, okAll |-> okAll, src |-> r.src, rejected |-> r.rejected,
                      pre |-> weatherDom, d1 |-> r.d1, d2 |-> r.d2, seq |-> fetches[i].seq,
                      newest |-> IF fetches[i].seq >= lastSettle.newest.seq
                                 THEN [seq |-> fetches[i].seq, panels |-> Panels(r.dom),
                                       weather |-> r.weather]
                                 ELSE lastSettle.newest]

\* fetchWeatherData with a timeout on the request: a pending invocation
\* renders the mock data and goes on waiting
FetchResolvesImpatient ==
    /\ \E i \in 1..Len(fetches) :
        /\ fetches[i].pc \in {"fetch", "fetch2"}
        /\ weatherDom' = fetchCatch(variant, weatherDom, weather).dom
        /\ UNCHANGED <<fetches, weather, lastSettle>>
    /\ UNCHANGED <<events, classified, variant, phase, geoSupported, now, notice, used, lastOp, crewVars,
                   userLocation, locationBtn, geoQueries>>

\* An awaited fetch() settles: the network fails, or a response with a status
\* and a body arrives.  The continuation runs up to the next await.
FetchResolves ==
    /\ \E i \in 1..Len(fetches) :
        /\ fetches[i].pc \in {"fetch", "fetch2"}
        /\ \/ Settles(i, "neterr", fetches[i].okAll, fetchCatch(variant, weatherDom, weather))
           \/ \E ok \in BOOLEAN, body \in Bodies(variant, fetches[i].pc) :
                IF StatusThrows(variant, ok)
                THEN Settles(i, "http", FALSE, fetchCatch(variant, weatherDom, weather))
                ELSE /\ fetches' = [fetches EXCEPT ![i] =
                            [@ EXCEPT !.pc = IF @ = "fetch" THEN "json" ELSE "json2",
                                      !.okAll = @ /\ ok, !.body = body]]
                     /\ UNCHANGED <<weatherDom, weather, lastSettle>>
    /\ UNCHANGED <<events, classified, variant, phase, geoSupported, now, notice, used, lastOp, crewVars,
                   userLocation, locationBtn, geoQueries>>

\* the second request of src/unnamed/part_001:216-226
TwoRequests(v) == v = "nea4day"

\* the end of an invocation that also saves the stats when it renders live data
JsonResolvesSaving ==
    /\ \E i \in 1..Len(fetches) :
        LET f == fetches[i]
        IN  /\ f.pc \in {"json", "json2"}
            /\ f.body # NotJson
            /\ TwoRequests(variant) => f.pc = "json2"
            /\ Settles(i, "http", f.okAll,
                       fetchRender(variant, IF TwoRequests(variant) THEN f.fdata ELSE f.body,
                                   IF TwoRequests(variant) THEN f.body ELSE Undef,
                                   weatherDom, weather))
    /\ statsSlot' = Stored(JSONStringify(stats))
    /\ UNCHANGED <<events, classified, variant, phase, geoSupported, now, notice, used, lastOp,
                   crew, stats, crewSlot, crewGrid, counters, anims,
                   userLocation, locationBtn, geoQueries>>

\* An awaited response.json() settles: the body does not parse, or the data
\* arrive and the continuation runs to the next await or to the end.
JsonResolves ==
    /\ \E i \in 1..Len(fetches) :
        LET f == fetches[i]
        IN  /\ f.pc \in {"json", "json2"}
            /\ IF f.body = NotJson
               THEN Settles(i, "http", f.okAll, fetchCatch(variant, weatherDom, weather))
               ELSE IF TwoRequests(variant) /\ f.pc = "json"
               THEN /\ fetches' = [fetches EXCEPT ![i] =
                            [@ EXCEPT !.pc = "fetch2", !.fdata = f.body, !.body = Undef]]
                    /\ UNCHANGED <<weatherDom, weather, lastSettle>>
               ELSE IF TwoRequests(variant)
               THEN Settles(i, "http", f.okAll,
                            fetchRender(variant, f.fdata, f.body, weatherDom, weather))
               ELSE Settles(i, "http", f.okAll,
                            fetchRender(variant, f.body, Undef, weatherDom, weather))
    /\ UNCHANGED <<events, classified, variant, phase, geoSupported, now, notice, used, lastOp, crewVars,
                   userLocation, locationBtn, geoQueries>>

\* the user clicks the join button of an event card; a disabled button
\* dispatches no click
JoinEvent ==
    /\ phase = "ready"
    /\ \E e \in EventIds :
        /\ ~events.buttons[e].disabled
        /\ events' = ClickJoin(events, e)
        /\ notice' = IF events.listeners = 0 THEN notice
                      ELSE [type |-> "success", kind |-> "joined"]
    /\ lastOp' = [op |-> "join", id |-> 0, hit |-> events.listeners > 0, save |-> "none", raised |-> FALSE]
    /\ UNCHANGED <<classified, variant, phase, geoSupported, now, used, crewVars, weatherVars>>

\* the browser runs one animation frame
AnimationFrame ==
    /\ anims # <<>>
    /\ used.frames < MaxFrames
    /\ counters' = FrameCounters(counters, anims)
    /\ anims' = FrameAnims(anims)
    /\ used' = [used EXCEPT !.frames = @ + 1]
    /\ UNCHANGED <<events, classified, variant, phase, geoSupported, now, notice, lastOp, crew, stats,
                   crewSlot, statsSlot, crewGrid, weatherVars>>

\* the browser runs animation frames, with no handler in between, until no
\* callback is scheduled
RunAnimations ==
    /\ anims # <<>>
    /\ counters' = AllFrames(counters, anims)
    /\ anims' = <<>>
    /\ UNCHANGED <<events, classified, variant, phase, geoSupported, now, notice, used, lastOp, crew,
                   stats, crewSlot, statsSlot, crewGrid, weatherVars>>

\* getForecastEmoji(arg) is called on its own
Classify ==
    /\ \E arg \in EmojiArguments :
        classified' = [t |-> "call", arg |-> arg, result |-> getForecastEmoji(arg)]
    /\ UNCHANGED <<events, variant, phase, geoSupported, now, notice, used, lastOp, crewVars, weatherVars>>

\* -------------------------------------------------------------- specifications

Next ==
    \/ InitializeApp \/ ReloadPage \/ Tick \/ CrewSubmit \/ RemoveCrew \/ ScheduleCleanup
    \/ EnableLocation \/ GeoSuccess \/ GeoError \/ FetchResolves \/ JsonResolves
    \/ Classify \/ AnimationFrame \/ RunAnimations \/ FetchWeather \/ JoinEvent

Spec == Init /\ [][Next]_vars

\* Crew, statistics and the store, in the runs in which the user leaves the
\* location button alone and the network has not answered yet, on a store
\* that holds nothing but what these scripts wrote or a text that does not parse.
NextCrew == InitializeApp \/ ReloadPage \/ Tick \/ CrewSubmit \/ RemoveCrew \/ ScheduleCleanup

InitCrew == Init /\ geoSupported /\ crewSlot \in InitCrewSlots /\ statsSlot \in InitStatsSlots

SpecCrew == InitCrew /\ [][NextCrew]_vars

\* Location and weather, in the runs of a first visit (an empty store) in
\* which the user leaves the crew and cleanup controls alone.
NextWeather == InitializeApp \/ EnableLocation \/ GeoSuccess \/ GeoError \/ FetchResolves \/ JsonResolves

InitWeather == Init /\ crewSlot = Absent /\ statsSlot = Absent

SpecWeather == InitWeather /\ [][NextWeather]_vars

\* The animated counters of src/unnamed/part_000 on a first visit: the crew
\* and cleanup handlers, and the animation frames between them.
NextAnim ==
    \/ InitializeApp \/ CrewSubmit \/ RemoveCrew \/ ScheduleCleanup
    \/ AnimationFrame \/ RunAnimations

InitAnim == InitWeather /\ geoSupported /\ variant = "nea24"

SpecAnim == InitAnim /\ [][NextAnim]_vars

\* The condition-text classifier of the two NEA scripts, called on its own
\* on a page that has just been constructed.
NextEmoji == Classify

InitEmoji == InitWeather /\ geoSupported /\ variant = "nea24"

SpecEmoji == InitEmoji /\ [][NextEmoji]_vars

\* The weather pipeline on a first visit in a browser without geolocation:
\* AppState.userLocation stays null, and fetchWeatherData is called directly.
NextPipeline == InitializeApp \/ FetchWeather \/ FetchResolves \/ JsonResolves

InitPipeline == InitWeather /\ ~geoSupported

SpecPipeline == InitPipeline /\ [][NextPipeline]_vars

\* Location and weather when every geolocation query is answered in the end:
\* the browser calls the success or the error callback of a pending query.
SpecLocationFair == SpecWeather /\ WF_vars(GeoSuccess \/ GeoError)

\* The event cards: startup, clicks on the join buttons, and reloads.
NextEvents == InitializeApp \/ ReloadPage \/ JoinEvent

InitEvents == InitCrew

SpecEvents == InitEvents /\ [][NextEvents]_vars

\* The same handlers on a store in which a slot holds a text that parses to
\* something else than a crew list or a stats record.
NextForeign == InitializeApp \/ ReloadPage \/ CrewSubmit \/ RemoveCrew \/ ScheduleCleanup

InitForeign ==
    Init /\ geoSupported /\ (crewSlot \in ForeignCrewSlots \/ statsSlot \in ForeignStatsSlots)

SpecForeign == InitForeign /\ [][NextForeign]_vars

\* -------------------------------------------------------------- properties

HandlerOps == {"add", "remove", "cleanup"}

\* C1: in the state handleCrewSubmit or removeCrewMember leaves, stats.crewMembers
\* is the length of the crew list.
CrewCountAfterMutation ==
    lastOp.op \in {"add", "remove"} => stats.crewMembers = Len(crew.a)

\* a removal in the seeded variant, whose loaded count did not match the list
CrewCountAfterMutationWitness ==
    /\ variant = "nea24"
    /\ lastOp.op = "remove"
    /\ Len(crew.a) = 1

\* C2: stats.beaches is min(stats.cleanups, 5) in every reachable state.
BeachesIsCappedCleanups == stats.beaches = Min(stats.cleanups, BeachCap)

\* a cleanup that takes a reloaded count past the cap
BeachesIsCappedCleanupsWitness ==
    /\ lastOp.op = "cleanup"
    /\ stats.cleanups = BeachCap + 1
    /\ stats.beaches = BeachCap

\* C3: in the state loadStateFromStorage leaves at startup, stats.crewMembers is
\* the length of the crew list, whatever the two slots hold.
CrewCountAfterLoad ==
    lastOp.op = "init" => stats.crewMembers = Len(crew.a)

\* C7: after a handler whose two writes succeeded, loadStateFromStorage on a
\* freshly constructed AppState rebuilds the crew list it saved: as many
\* members, in the same order, each with the same id, name, role and joinedDate.
FreshCrew == Arr(<<>>)
CrewRoundTrip ==
    (lastOp.op \in HandlerOps /\ lastOp.save = "ok") =>
        \E ld \in {loadStateFromStorage(variant, FreshCrew, ZeroStats, crewSlot, statsSlot)} :
            /\ Len(ld.crew.a) = Len(crew.a)
            /\ \A i \in 1..Len(crew.a) :
                /\ ld.crew.a[i].id = crew.a[i].id
                /\ ld.crew.a[i].name = crew.a[i].name
                /\ ld.crew.a[i].role = crew.a[i].role
                /\ ld.crew.a[i].joinedDate = crew.a[i].joinedDate

\* a save of two members with different ids and names went through
CrewRoundTripWitness ==
    /\ lastOp.op = "add"
    /\ lastOp.save = "ok"
    /\ Len(crew.a) = 2
    /\ crew.a[1].id # crew.a[2].id
    /\ crew.a[1].name # crew.a[2].name

\* C8: removeCrewMember with an id no member carries leaves the crew list as it
\* was, leaves cleanups, trash and beaches as they were, and does not throw.
RemoveAbsentIsNoOp ==
    [][(lastOp'.op = "remove" /\ used'.ops = used.ops + 1 /\ ~lastOp'.hit) =>
          /\ crew' = crew
          /\ stats'.cleanups = stats.cleanups
          /\ stats'.trash = stats.trash
          /\ stats'.beaches = stats.beaches
          /\ ~lastOp'.raised]_vars

\* an id that is not there was removed from a list that has a member
RemoveAbsentIsNoOpWitness ==
    /\ lastOp.op = "remove"
    /\ ~lastOp.hit
    /\ Len(crew.a) >= 1

\* the stats a slot that did not load leaves in place
DefaultStats(v) == IF v = "nea24" THEN mockStats ELSE ZeroStats
Unparseable(slot) == SlotTruthy(slot) /\ ~JSONParse(slot.text).ok

\* C9: loadStateFromStorage does not throw, and a slot that is absent or does
\* not parse leaves its part of the state at the default: the empty list, and
\* the zero stats or the demo snapshot.
LoadNeverThrows ==
    lastOp.op = "init" =>
        /\ ~lastOp.raised
        /\ (~SlotTruthy(crewSlot) \/ Unparseable(crewSlot)) => crew = Arr(<<>>)
        /\ (~SlotTruthy(statsSlot) \/ Unparseable(statsSlot)) => stats = DefaultStats(variant)

\* a load with a stats slot that does not parse next to a crew slot that does
LoadNeverThrowsWitness ==
    /\ lastOp.op = "init"
    /\ Unparseable(statsSlot)
    /\ SlotTruthy(crewSlot)
    /\ ~Unparseable(crewSlot)

\* the counters show s: its values, or the first frame of an animation to them
CountersShow(v, s, shown, running) ==
    LET tg == StatTargets(s)
    IN  IF v = "nea24"
        THEN /\ \A c \in CounterIds : shown[c] = Num(AnimValue(tg[c], 1))
             /\ (\E c \in CounterIds : ~AnimDone(tg[c], 1)) =>
                    /\ Len(running) >= 1
                    /\ running[Len(running)].target = tg
        ELSE \A c \in CounterIds : shown[c] = Num(tg[c])

\* the crew grid shows one card per member of c, in order
GridShows(c, grid) ==
    /\ grid.t = "cards"
    /\ Len(grid.cards) = Len(c.a)
    /\ \A i \in 1..Len(c.a) :
        /\ grid.cards[i].name = c.a[i].name
        /\ grid.cards[i].removeId = c.a[i].id

\* C10: when a write of saveStateToStorage fails, the handler still completes:
\* nothing is thrown, the in-memory list and stats hold the mutation, the grid
\* and counters are rendered from them, and the notification is the success one.
WriteFailureSwallowed ==
    [][(used'.failures = used.failures + 1) =>
          /\ ~lastOp'.raised
          /\ notice'.type = "success"
          /\ CountersShow(variant, stats', counters', anims')
          /\ lastOp'.op = "add" =>
                /\ Len(crew'.a) = Len(crew.a) + 1
                /\ crew'.a[Len(crew'.a)].id = lastOp'.id
                /\ stats'.crewMembers = Len(crew'.a)
                /\ GridShows(crew', crewGrid')
          /\ lastOp'.op = "remove" =>
                /\ \A i \in 1..Len(crew'.a) : crew'.a[i].id # lastOp'.id
                /\ stats'.crewMembers = Len(crew'.a)
                /\ GridShows(crew', crewGrid')
          /\ lastOp'.op = "cleanup" => stats'.cleanups = stats.cleanups + 1]_vars

\* a member was added while the write of the crew slot failed
WriteFailureSwallowedWitness ==
    /\ lastOp.op = "add"
    /\ lastOp.save = "failCrew"
    /\ crewSlot # Stored(JSONStringify(crew))

\* C4: when a response arrives with a non-success status, fetchWeatherData
\* renders the mock forecast, exactly as it does when the network fails.
NonOkRendersMock ==
    (lastSettle.req = "http" /\ ~lastSettle.okAll) =>
        /\ lastSettle.src = "mock"
        /\ Panels(weatherDom) = Panels(fetchCatch(variant, lastSettle.pre, weather).dom)

\* C5: no exception leaves fetchWeatherData, whatever the request, the body
\* and the render of the live data do.
FetchNeverRejects == ~lastSettle.rejected

\* the render of live data threw half way and the mock data were rendered
FetchNeverRejectsWitness ==
    /\ variant = "nea4day"
    /\ lastSettle.req = "http"
    /\ lastSettle.okAll
    /\ lastSettle.src = "mock"
    /\ lastSettle.pre.bestTimeId = "best-time"
    /\ weatherDom.grid = Markup

\* C6: when a fetchWeatherData invocation has settled, the weather panel has
\* been rendered, from the live data or from the mock data.
SettledMeansRendered ==
    lastSettle.req # "none" => lastSettle.src \in {"live", "mock"}

\* C11: getForecastEmoji gives the partly-cloudy glyph for the text
\* "Partly cloudy" in any letter case.
PartlyCloudyGlyph ==
    (classified.t = "call" /\ classified.arg.t = "str"
        /\ toLowerCase(classified.arg.s) = wPartlyCloudy) =>
            classified.result.emoji = "partlyCloudy"

\* the classes of the priority order, highest first, with their keywords
GlyphClasses == <<"thunder", "rain", "cloud", "clear", "wind">>
ClassKeywords(c) ==
    CASE c = "thunder" -> {wThunder, wThundery}
      [] c = "rain" -> {wRain, wShower}
      [] c = "cloud" -> {wCloud, wCloudy, wPartlyCloudy}
      [] c = "clear" -> {wClear, wSunny}
      [] OTHER -> {wWind, wWindy}
ClassOfGlyph(g) ==
    CASE g = "thunderstorm" -> "thunder"
      [] g = "rain" -> "rain"
      [] g \in {"cloud", "partlyCloudy"} -> "cloud"
      [] g = "sun" -> "clear"
      [] g = "wind" -> "wind"
      [] OTHER -> "none"
HasClass(text, c) == \E k \in ClassKeywords(c) : includes(toLowerCase(text), k)
HighestClass(text) ==
    IF \E i \in 1..Len(GlyphClasses) : HasClass(text, GlyphClasses[i])
    THEN GlyphClasses[CHOOSE i \in 1..Len(GlyphClasses) :
                        /\ HasClass(text, GlyphClasses[i])
                        /\ \A j \in 1..(i - 1) : ~HasClass(text, GlyphClasses[j])]
    ELSE "none"

\* C12: for every text, getForecastEmoji returns a glyph of the highest class,
\* in the order thunder > rain/shower > cloud > clear/sunny > wind, of which
\* the text contains a keyword in any letter case, and the generic glyph when
\* it contains none.
GlyphByPriority ==
    (classified.t = "call" /\ classified.arg.t = "str") =>
        /\ ~classified.result.threw
        /\ ClassOfGlyph(classified.result.emoji) = HighestClass(classified.arg.s)
        /\ (HighestClass(classified.arg.s) = "none") = (classified.result.emoji = "generic")

\* "THUNDERY SHOWERS" was classified: keywords of two classes, in upper case
GlyphByPriorityWitness ==
    /\ classified.t = "call"
    /\ classified.arg = [t |-> "str", s |-> InCase(wThundery \o wSpace \o wShowers, "upper")]
    /\ classified.result.emoji = "thunderstorm"

\* the forecast entry the humidity of the panels is read from
HumiditySource(v, d1) ==
    IF v = "nea24" THEN OrElse(Prop(OptFirst(OptProp(d1, "items")), "general"), EmptyObj)
    ELSE OptFirst(OptProp(OptFirst(OptProp(d1, "items")), "forecasts"))
ShowsBand(panel, low, high) == panel.humLow = Num(low) /\ panel.humHigh = Num(high)

\* C13: when the live forecast that was rendered has no humidity field, every
\* panel that shows humidity shows the band 60-85, and the condition text
\* that is present is shown as received.
HumidityDefaultBand ==
    (variant \in {"nea24", "nea4day"} /\ lastSettle.src = "live"
        /\ Truthy(HumiditySource(variant, lastSettle.d1))
        /\ Nullish(Prop(HumiditySource(variant, lastSettle.d1), "relative_humidity"))
        /\ Truthy(Prop(HumiditySource(variant, lastSettle.d1), "forecast"))) =>
            /\ weatherDom.ocean.t = "ocean"
            /\ ShowsBand(weatherDom.ocean, 60, 85)
            /\ weatherDom.ocean.forecast = Prop(HumiditySource(variant, lastSettle.d1), "forecast")
            /\ (variant = "nea24") => ShowsBand(weatherDom.current, 60, 85)
            /\ (variant = "nea4day" /\ weatherDom.grid # lastSettle.pre.grid) =>
                   ShowsBand(weatherDom.grid.cards[1], 60, 85)

\* C14: in the two-endpoint script, when either request fails (the network
\* fails or the status is not a success) the render is given the mock
\* forecast together with the mock readings.
TwoEndpointFallback ==
    (variant = "nea4day" /\ (lastSettle.req = "neterr" \/ ~lastSettle.okAll)) =>
        /\ lastSettle.d1 = getMockForecastData
        /\ lastSettle.d2 = getMockReadingsData

\* C15: once every fetchWeatherData invocation has ended, the weather panels
\* and AppState.weather are those the invocation issued last left, whatever
\* the order in which the invocations ended.
LatestRequestWins ==
    (fetches = <<>> /\ lastSettle.req # "none") =>
        /\ weather = lastSettle.newest.weather
        /\ Panels(weatherDom) = lastSettle.newest.panels

\* the cards renderForecastGrid makes of a forecast, on a fresh grid
CardsOf(v, forecastData) == renderForecastGrid(v, forecastData, MarkupDom)

\* C16: in the 4-day script, when an invocation has ended with a render of a
\* forecast that has cards, the forecast grid shows the cards of that
\* forecast and nothing of an earlier one.
GridReplacedWholesale ==
    (variant = "nea4day" /\ lastSettle.src \in {"live", "mock"}
        /\ CardsOf(variant, lastSettle.d1).wrote) =>
            weatherDom.grid = CardsOf(variant, lastSettle.d1).dom.grid

\* C17: when getCurrentPosition reports an error, the handler shows an error
\* notice, leaves AppState.userLocation as it was, issues no weather request
\* and leaves the button enabled with its original label; without
\* geolocation support the button is never disabled, nothing is requested
\* for a location, and the click shows an error notice.
GeolocationFailureAborts ==
    /\ [](~geoSupported =>
            /\ ~locationBtn.disabled
            /\ locationBtn.text = "original"
            /\ geoQueries = <<>>
            /\ userLocation = Null
            /\ used.fetches = (IF FetchesAtStartup(variant) /\ phase = "ready" THEN 1 ELSE 0)
            /\ lastOp.op = "enableLocation" => notice = [type |-> "error", kind |-> "geoUnsupported"])
    /\ [][(lastOp'.op = "geoError" /\ Len(geoQueries') < Len(geoQueries)) =>
            /\ notice'.type = "error"
            /\ userLocation' = userLocation
            /\ fetches' = fetches
            /\ used'.fetches = used.fetches
            /\ locationBtn' = [text |-> "original", disabled |-> FALSE]]_vars

\* the error callback ran and the button is back
GeolocationFailureAbortsWitness ==
    /\ lastOp.op = "geoError"
    /\ notice = [type |-> "error", kind |-> "enableLocation"]
    /\ locationBtn = [text |-> "original", disabled |-> FALSE]
    /\ geoQueries = <<>>

\* C18: no step of a fetchWeatherData invocation, be it the request, an
\* answer, the render of live data or the fallback, changes AppState.crew,
\* AppState.stats or either slot of the store.
FetchLeavesCrewAndStore ==
    [][(fetches' # fetches /\ phase = "ready" /\ phase' = "ready") =>
          /\ crew' = crew
          /\ stats' = stats
          /\ crewSlot' = crewSlot
          /\ statsSlot' = statsSlot]_vars

\* part_000 has rendered live data next to the seeded stats and an empty store
FetchLeavesCrewAndStoreWitness ==
    /\ variant = "nea24"
    /\ lastSettle.src = "live"
    /\ stats = mockStats
    /\ crewSlot = Absent
    /\ statsSlot = Absent

\* C19: in the animated-counter script, once no animation callback is
\* scheduled, each counter shows the current value of its stat.
CountersReachState ==
    (variant = "nea24" /\ phase = "ready" /\ anims = <<>>) =>
        \A c \in CounterIds : counters[c] = Num(StatTargets(stats)[c])

\* C20: in every reachable state the members of the crew list have pairwise
\* distinct ids.
DistinctIds ==
    \A i \in 1..Len(crew.a) : \A j \in 1..Len(crew.a) :
        i # j => crew.a[i].id # crew.a[j].id

\* the invocation that ends in a step: the one the step takes off the list
Ended(fs, seq) ==
    /\ \E i \in 1..Len(fs) : fs[i].seq = seq
    /\ Len(fetches') = Len(fs) - 1
    /\ \A j \in 1..Len(fetches') : fetches'[j].seq # seq

\* invocation f ends in failure: the network failed, the status made it throw,
\* the body did not parse, or the render of the live data threw
EndsInFailure(f, req) ==
    \/ req = "neterr"
    \/ f.pc \in {"fetch", "fetch2"}
    \/ f.body = NotJson
    \/ updateWeatherUI(variant, IF TwoRequests(variant) THEN f.fdata ELSE f.body,
                       IF TwoRequests(variant) THEN f.body ELSE Undef, weatherDom).threw

\* C21: the weather panels change only in a step in which a fetchWeatherData
\* invocation ends, and the mock data are rendered only by an invocation that
\* ends in failure; while the request is pending nothing is rendered for it.
PendingRendersNothing ==
    [][/\ Panels(weatherDom') # Panels(weatherDom) => Ended(fetches, lastSettle'.seq)
       /\ (lastSettle' # lastSettle /\ lastSettle'.src = "mock") =>
              /\ Ended(fetches, lastSettle'.seq)
              /\ \A i \in 1..Len(fetches) :
                    fetches[i].seq = lastSettle'.seq => EndsInFailure(fetches[i], lastSettle'.req)]_vars

\* the startup request of part_000 is pending and the panels are the markup's
PendingRendersNothingWitness ==
    /\ variant = "nea24"
    /\ phase = "ready"
    /\ Len(fetches) = 1
    /\ fetches[1].pc = "fetch"
    /\ lastSettle = NoSettle
    /\ Panels(weatherDom) = Panels(MarkupDom)

\* C22: without a user location, once fetchWeatherData has been called and
\* every invocation has ended, a forecast has been rendered, in every variant.
ForecastWithoutLocation ==
    (Nullish(userLocation) /\ lastOp.op = "fetchWeatherData" /\ fetches = <<>>) =>
        lastSettle.src \in {"live", "mock"}

\* C23: a handleScheduleCleanup step adds exactly 1 to stats.cleanups and an
\* integer from 20 to 69 to stats.trash, and leaves the crew list and
\* stats.crewMembers as they were; within a session (no reload in between)
\* no step lowers stats.cleanups or stats.trash.
CleanupIncrements ==
    [][/\ (lastOp'.op = "cleanup" /\ used'.ops = used.ops + 1) =>
              /\ stats'.cleanups = stats.cleanups + 1
              /\ stats'.trash - stats.trash \in 20..69
              /\ crew' = crew
              /\ stats'.crewMembers = stats.crewMembers
       /\ phase' # "constructed" =>
              /\ stats'.cleanups >= stats.cleanups
              /\ stats'.trash >= stats.trash]_vars

\* a cleanup of 69 items on a first visit, with one member in the crew
CleanupIncrementsWitness ==
    /\ lastOp.op = "cleanup"
    /\ stats.cleanups = 1
    /\ stats.trash = 69
    /\ Len(crew.a) = 1
    /\ stats.crewMembers = 1

\* C24: a crew add step leaves the old list as the prefix of the new one and
\* puts the new member last; a crew remove step leaves exactly the members
\* whose id is not the given one, in their old order; neither step changes
\* stats.cleanups, stats.trash or stats.beaches.
CrewFrame ==
    [][/\ (lastOp'.op = "add" /\ used'.ops = used.ops + 1) =>
              /\ Len(crew'.a) = Len(crew.a) + 1
              /\ SubSeq(crew'.a, 1, Len(crew.a)) = crew.a
              /\ crew'.a[Len(crew'.a)].id = lastOp'.id
       /\ (lastOp'.op = "remove" /\ used'.ops = used.ops + 1) =>
              crew'.a = SelectSeq(crew.a, LAMBDA m : m.id # lastOp'.id)
       /\ (lastOp'.op \in {"add", "remove"} /\ used'.ops = used.ops + 1) =>
              /\ stats'.cleanups = stats.cleanups
              /\ stats'.trash = stats.trash
              /\ stats'.beaches = stats.beaches]_vars

\* the first of two members was removed and the second is still there
CrewFrameWitness ==
    /\ lastOp.op = "remove"
    /\ lastOp.hit
    /\ Len(crew.a) = 1
    /\ crew.a[1].id > lastOp.id

\* C25: after a crew add, crew remove or schedule cleanup whose two writes
\* succeeded, the crew slot parses to the in-memory crew list and the stats
\* slot to the in-memory stats, and loadStateFromStorage on a freshly
\* constructed AppState restores exactly that list and those stats.
SavedStateRestored ==
    (lastOp.op \in HandlerOps /\ lastOp.save = "ok") =>
        /\ SlotTruthy(crewSlot)
        /\ SlotTruthy(statsSlot)
        /\ JSONParse(crewSlot.text) = [ok |-> TRUE, v |-> crew]
        /\ JSONParse(statsSlot.text) = [ok |-> TRUE, v |-> stats]
        /\ \E ld \in {loadStateFromStorage(variant, FreshCrew, ZeroStats, crewSlot, statsSlot)} :
              /\ ld.crew = crew
              /\ ld.stats = stats
              /\ ~ld.caught
              /\ ~ld.raised

\* a cleanup saved both slots after an earlier save of a member had failed
SavedStateRestoredWitness ==
    /\ lastOp.op = "cleanup"
    /\ lastOp.save = "ok"
    /\ used.failures = 1
    /\ Len(crew.a) = 1
    /\ stats.trash > 0

\* C26: in every state in which the crew slot holds a list and the stats slot
\* a stats record, the length of the stored list is the stored crewMembers.
SlotsConsistent ==
    (SlotTruthy(crewSlot) /\ SlotTruthy(statsSlot)
        /\ JSONParse(crewSlot.text).ok /\ JSONParse(statsSlot.text).ok) =>
            Len(JSONParse(crewSlot.text).v.a) = JSONParse(statsSlot.text).v.crewMembers

\* C27: the location button is disabled exactly in the states in which a
\* geolocation query is outstanding, it carries its original label whenever
\* it is enabled, at most one query is outstanding, and when every query is
\* answered a disabled button is enabled again with its original label.
ButtonTracksQuery ==
    /\ [](/\ locationBtn.disabled <=> geoQueries # <<>>
          /\ ~locationBtn.disabled => locationBtn.text = "original"
          /\ Len(geoQueries) <= 1)
    /\ (locationBtn.disabled ~> (~locationBtn.disabled /\ locationBtn.text = "original"))

\* the success callback ran, a request is under way, and the button is back
ButtonTracksQueryWitness ==
    /\ lastOp.op = "geoSuccess"
    /\ userLocation # Null
    /\ fetches # <<>>
    /\ geoQueries = <<>>
    /\ locationBtn = [text |-> "original", disabled |-> FALSE]

\* C28: in the script that sets up the join buttons, a button that has been
\* clicked is disabled and has produced exactly one 'joined' notification,
\* and no event produces more than one per page load.
JoinedOnce ==
    SetsUpEventButtons(variant) =>
        \A e \in EventIds :
            /\ events.buttons[e].notices <= 1
            /\ events.buttons[e].joined =>
                  (events.buttons[e].disabled /\ events.buttons[e].notices = 1)

\* C29: in the 24-hour script, once a fetchWeatherData invocation has ended,
\* with an answer or with a failure, the forecast grid shows the four mock
\* days, today to today + 3, and only the first card is tagged best.
MockGridAlways ==
    (variant = "nea24" /\ lastSettle.req # "none") =>
        /\ weatherDom.grid.t = "cards"
        /\ Len(weatherDom.grid.cards) = 4
        /\ \A i \in 1..4 :
              /\ weatherDom.grid.cards[i].date = formatDateForDisplay(getDateString(i - 1))
              /\ weatherDom.grid.cards[i].best = (i = 1)
        /\ weatherDom.grid = CardsOf("nea24", getMock4DayForecast).dom.grid

\* the four counters of a stats record
StatKeys == {"cleanups", "trash", "beaches", "crewMembers"}

\* C30: whatever the two slots hold, once initializeApp has run AppState.crew
\* is a list and AppState.stats is a record with the four counters, and
\* neither startup nor any later handler throws.
LoadedStateWellFormed ==
    phase = "ready" =>
        /\ IsArray(crew)
        /\ stats.t = "obj"
        /\ StatKeys \subseteq DOMAIN stats
        /\ ~lastOp.raised

====
